---- MODULE Spec2Model ----
(***************************************************************************)
(* The pharmacy backend: quick-order creation (QuickOrderSerializer.create  *)
(* behind create_quick_order), the status update (update_order_status),    *)
(* the admin's edits, the customer profile (customer_profile), the         *)
(* conversation sessions (whatsapp_session) and the medicine search        *)
(* (search_medicines), over the Medicine, MedicineAlias, PharmacyInventory,*)
(* Customer, Order, OrderItem and WhatsAppSession tables.                  *)
(*                                                                         *)
(* The store runs in autocommit: every ORM statement is one atomic step,   *)
(* and requests served by different workers interleave between statements. *)
(*                                                                         *)
(* The medicines list of a quick-create request is read line by line: a    *)
(* request holds the number of lines the loop has not reached yet and the  *)
(* line it is at (med_data); the content of a line is drawn when the loop  *)
(* reaches it, since nothing reads it earlier.                             *)
(*                                                                         *)
(* Numbers.  A DecimalField(decimal_places=2) column holds an integer      *)
(* number of cents; discount_percentage holds hundredths of a percent.     *)
(* A Python number in a request's memory is a record [t, v]: t is its      *)
(* Python type ("int", "Decimal", "float") and v its value in millionths   *)
(* of a currency unit, which is exact for every product the code forms.    *)
(***************************************************************************)
EXTENDS Integers, Sequences, FiniteSets, TLC

\* ------------------------------------------------------------------ bounds
MaxOrders == 2
MaxLines == 2
MaxClock == 2

Workers == {"w1", "w2"}

\* ------------------------------------------------------------------- state
VARIABLES
    medicine,   \* Medicine table: id -> row
    customer,   \* Customer table: sequence of rows, pk = index
    order,      \* Order table: sequence of rows, pk = index
    items,      \* OrderItem table by order: items[k] = the rows whose order
                \* is k, in primary-key order (Order.items)
    req,        \* per worker: the request it is serving and its locals
    resp,       \* the response the step just taken has sent, if it ended a
                \* request, with the request it answers
    alias,      \* MedicineAlias table: a set of rows
    inventory,  \* PharmacyInventory table: a set of rows
    session,    \* WhatsAppSession table: sequence of rows, pk = index
    now         \* the clock auto_now reads

\* ------------------------------------------------------- program constants
Micro == 1000000
CentMicro == 10000
TaxRateMicro == 50000

STATUS_CHOICES ==
    {"PENDING", "CONFIRMED", "PREPARING", "READY", "DELIVERED", "CANCELLED"}

PRESCRIPTION_CHOICES == {"OTC", "RX", "RXC"}

\* ----------------------------------------------------------- Python numbers
PyInt(n) == [t |-> "int", v |-> n * Micro]
PyDecimal(micro) == [t |-> "Decimal", v |-> micro]
PyFloat(micro) == [t |-> "float", v |-> micro]
TypeError == [t |-> "TypeError", v |-> 0]

\* x * 0.05 : Decimal * float raises TypeError, int * float is a float
PyMulFloat(x, fmicro) ==
    IF x.t \in {"Decimal", "TypeError"} THEN TypeError
    ELSE PyFloat((x.v * fmicro) \div Micro)

\* x + y : Decimal + float raises TypeError; int + Decimal is a Decimal;
\* int + float is a float
PyAdd(x, y) ==
    IF x.t = "TypeError" \/ y.t = "TypeError" THEN TypeError
    ELSE IF {x.t, y.t} = {"Decimal", "float"} THEN TypeError
    ELSE IF "Decimal" \in {x.t, y.t} THEN PyDecimal(x.v + y.v)
    ELSE IF "float" \in {x.t, y.t} THEN PyFloat(x.v + y.v)
    ELSE [t |-> "int", v |-> x.v + y.v]

\* DecimalField.get_db_prep_save: quantize to 2 places, ROUND_HALF_EVEN
Quantize(micro) ==
    LET q == micro \div CentMicro
        r == micro % CentMicro
    IN  IF 2 * r > CentMicro THEN q + 1
        ELSE IF 2 * r < CentMicro THEN q
        ELSE IF q % 2 = 0 THEN q ELSE q + 1

\* a column value read back into Python
FromDb(cents) == PyDecimal(cents * CentMicro)

\* ---------------------------------------------------------------- Medicine
MedIds == {1, 2}

\* what the admin may set (mrp in cents, discount in hundredths of a percent)
Prices ==
    { [mrp |-> 5, discount_percentage |-> 1000] }

\* mutant: the price is the one a pharmacy's inventory states
InventorySellingPrice(m) ==
    LET x == CHOOSE x \in inventory : medicine[x.medicine] = m
    IN  PyDecimal(x.selling_price * CentMicro)

\* Medicine.selling_price: mrp - (mrp * discount_percentage) / 100
selling_price(m) ==
    LET discount_amount == m.mrp * m.discount_percentage
    IN  PyDecimal(m.mrp * CentMicro - discount_amount)

\* Medicine.is_prescription_required
is_prescription_required(m) == m.prescription_type \in {"RX", "RXC"}

\* ------------------------------------------------------------ request data
\* what int() and the integer primary-key lookup make of a string
IntOf == [s \in {"-1", "0", "1", "2", "9"} |->
            CASE s = "-1" -> 0 - 1 [] s = "0" -> 0 [] s = "1" -> 1
              [] s = "2" -> 2 [] s = "9" -> 9]

IsIntString(s) == s \in DOMAIN IntOf

\* lines a DictField(child=CharField()) list can carry: two that resolve,
\* one whose id names no medicine, one whose id is no number, one whose
\* quantity is no number
LineValues ==
    { [medicine_id |-> "1", quantity |-> "2"],
      [medicine_id |-> "2", quantity |-> "1"],
      [medicine_id |-> "9", quantity |-> "1"],
      [medicine_id |-> "x", quantity |-> "1"],
      [medicine_id |-> "1", quantity |-> "x"] }

NoLine == [medicine_id |-> "", quantity |-> ""]

\* phone numbers of requests
Phones == {"p1", "p2"}

PharmacyIds == {1}
PharmacyIdInputs == {1, 7}

\* request.data.get('status'): a string, nothing (None), or an unhashable
\* JSON value such as a list
StatusInputs ==
    [kind : {"str"}, val : STATUS_CHOICES \cup {"SHIPPED"}]
        \cup { [kind |-> "none", val |-> ""], [kind |-> "list", val |-> "PENDING"] }

\* ------------------------------------------------------- rows and requests
vars == <<medicine, customer, order, items, req, resp, alias, inventory, session, now>>

\* the tables the order workflow and the admin's edits never name
others == <<alias, inventory, session, now>>

NoRow == [order_id |-> 0, customer |-> 0, pharmacy |-> 0, status |-> "",
          subtotal |-> 0, tax_amount |-> 0, delivery_charge |-> 0,
          total_amount |-> 0, prescription_required |-> FALSE]

NoStatus == [kind |-> "none", val |-> ""]

Idle == [kind |-> "idle", pc |-> "idle",
         customer_phone |-> "", pharmacy_id |-> 0,
         unread |-> 0, med_data |-> NoLine,
         customer |-> 0, order |-> 0, row |-> NoRow,
         total_amount |-> PyInt(0), prescription_required |-> FALSE,
         order_id |-> 0, new_status |-> NoStatus]

\* the response to request r: its status code, the exception that left the
\* view if one did, and what the request was about
Response(r, status_code, error) ==
    [kind |-> r.kind, status_code |-> status_code, error |-> error,
     pharmacy_id |-> r.pharmacy_id,
     order |-> r.order, unread |-> r.unread, med_data |-> r.med_data,
     order_id |-> r.order_id, new_status |-> r.new_status, old_status |-> ""]

NoResponse == Response(Idle, 0, "")

\* a 5xx: the exception leaves the view, nothing is rolled back
Raise(r, exc) == Response(r, 500, exc)

\* workers are interchangeable: a request goes to the first idle one
FirstIdle(w) ==
    /\ req[w].pc = "idle"
    /\ w = "w2" => req["w1"].pc # "idle"

\* Order(...) with the model's field defaults; order_id = uuid.uuid4(), a
\* token no other order carries
NewOrder(cust, pharmacy_id, uuid) ==
    [order_id |-> uuid, customer |-> cust, pharmacy |-> pharmacy_id,
     status |-> "PENDING", subtotal |-> 0, tax_amount |-> 0,
     delivery_charge |-> 0, total_amount |-> 0,
     prescription_required |-> FALSE]

FreshUuid == Len(order) + 1

Init ==
    /\ medicine \in { [id \in MedIds |->
                          IF id = 1
                          THEN [name |-> <<"a">>, generic_name |-> <<>>,
                                brand_name |-> <<>>, is_active |-> TRUE,
                                mrp |-> 5000, discount_percentage |-> 0,
                                prescription_type |-> "OTC"]
                          ELSE [name |-> <<"b">>, generic_name |-> <<>>,
                                brand_name |-> <<>>, is_active |-> TRUE,
                                mrp |-> 10000, discount_percentage |-> 0,
                                prescription_type |-> rx]] : rx \in {"RX"} }
    /\ customer = <<>>
    /\ order = <<>>
    /\ items = <<>>
    /\ req = [w \in Workers |-> Idle]
    /\ resp = NoResponse
    /\ alias = {}
    /\ inventory = { [pharmacy |-> 1, medicine |-> 1, batch_number |-> "b1",
                      stock_quantity |-> 5, selling_price |-> 4000],
                     [pharmacy |-> 1, medicine |-> 2, batch_number |-> "b1",
                      stock_quantity |-> 0, selling_price |-> 12000] }
    /\ session = <<>>
    /\ now = 0

OrderPks == 1..Len(order)

CustomerPk(phone) ==
    { k \in 1..Len(customer) : customer[k].phone_number = phone }

\* ------------------------------------------------------------ quick-create
\* create_quick_order: serializer.is_valid() passed, serializer.save() begins
\* with a medicines list of n lines
QCStart(w, phone, pharmacy_id, n) ==
    /\ FirstIdle(w)
    /\ Len(order) + Cardinality({ u \in Workers : req[u].kind = "quick"
                                    /\ req[u].pc \in {"customer_get", "customer_create",
                                                      "order_create"} }) < MaxOrders
    /\ req' = [req EXCEPT ![w] = [Idle EXCEPT !.kind = "quick",
                                              !.pc = "customer_get",
                                              !.customer_phone = phone,
                                              !.pharmacy_id = pharmacy_id,
                                              !.unread = n]]
    /\ resp' = NoResponse
    /\ UNCHANGED <<medicine, customer, order, items>>
    /\ UNCHANGED others

\* Customer.objects.get_or_create: the lookup
QCGetCustomer(w) ==
    /\ req[w].kind = "quick" /\ req[w].pc = "customer_get"
    /\ LET found == CustomerPk(req[w].customer_phone)
       IN  req' = IF found = {}
                  THEN [req EXCEPT ![w].pc = "customer_create"]
                  ELSE [req EXCEPT ![w].pc = "order_create",
                                   ![w].customer = CHOOSE k \in found : TRUE]
    /\ resp' = NoResponse
    /\ UNCHANGED <<medicine, customer, order, items>>
    /\ UNCHANGED others

\* mutant: phone_number is not unique, the insert always succeeds
QCCreateCustomerNotUnique(w) ==
    /\ req[w].kind = "quick" /\ req[w].pc = "customer_create"
    /\ customer' = Append(customer, [phone_number |-> req[w].customer_phone,
                                     whatsapp_number |-> req[w].customer_phone])
    /\ req' = [req EXCEPT ![w].pc = "order_create",
                          ![w].customer = Len(customer) + 1]
    /\ resp' = NoResponse
    /\ UNCHANGED <<medicine, order, items>>
    /\ UNCHANGED others

\* Customer.objects.get_or_create: the insert; phone_number is unique, so a
\* row inserted meanwhile makes the insert fail and the lookup is repeated
QCCreateCustomer(w) ==
    /\ req[w].kind = "quick" /\ req[w].pc = "customer_create"
    /\ LET phone == req[w].customer_phone
           found == CustomerPk(phone)
       IN  IF found = {}
           THEN /\ customer' = Append(customer, [phone_number |-> phone,
                                                 whatsapp_number |-> phone])
                /\ req' = [req EXCEPT ![w].pc = "order_create",
                                      ![w].customer = Len(customer) + 1]
           ELSE /\ customer' = customer
                /\ req' = [req EXCEPT ![w].pc = "order_create",
                                      ![w].customer = CHOOSE k \in found : TRUE]
    /\ resp' = NoResponse
    /\ UNCHANGED <<medicine, order, items>>
    /\ UNCHANGED others

\* Order.objects.create(...); the pharmacy foreign key is enforced by the store
QCCreateOrder(w) ==
    /\ req[w].kind = "quick" /\ req[w].pc = "order_create"
    /\ IF req[w].pharmacy_id \notin PharmacyIds
       THEN /\ req' = [req EXCEPT ![w] = Idle]
            /\ resp' = Raise(req[w], "IntegrityError")
            /\ UNCHANGED <<order, items>>
       ELSE LET row == NewOrder(req[w].customer, req[w].pharmacy_id, FreshUuid)
            IN  /\ order' = Append(order, row)
                /\ items' = Append(items, <<>>)
                /\ req' = [req EXCEPT ![w].order = Len(order) + 1,
                                      ![w].row = row,
                                      ![w].pc = IF req[w].unread = 0
                                                THEN "totals" ELSE "items"]
                /\ resp' = NoResponse
    /\ UNCHANGED <<medicine, customer>>
    /\ UNCHANGED others

\* the loop is at line med_data
AtLine(w, med_data) ==
    [req[w] EXCEPT !.med_data = med_data, !.unread = req[w].unread - 1]

\* the loop is done with line med_data: it goes on, or ends after the last one
NextLine(w, med_data) ==
    [AtLine(w, med_data) EXCEPT !.pc = IF req[w].unread = 1 THEN "totals" ELSE "items"]

\* the stored OrderItem row: decimals are quantized on the way in
NewItem(medicine_id, quantity, unit_price, total_price) ==
    [medicine |-> medicine_id, quantity |-> quantity,
     unit_price |-> Quantize(unit_price.v), total_price |-> Quantize(total_price.v)]

\* Medicine.objects.get(id=...) finds a row
Resolves(med_data) ==
    IsIntString(med_data.medicine_id) /\ IntOf[med_data.medicine_id] \in DOMAIN medicine

\* one iteration of "for med_data in medicines_data"
QCLine(w, med_data) ==
    /\ req[w].kind = "quick" /\ req[w].pc = "items"
    /\ IF ~IsIntString(med_data.medicine_id)
       THEN \* Medicine.objects.get(id='x'): ValueError, not DoesNotExist
            /\ req' = [req EXCEPT ![w] = Idle]
            /\ resp' = Raise(AtLine(w, med_data), "ValueError")
            /\ items' = items
       ELSE IF ~Resolves(med_data)
       THEN \* except Medicine.DoesNotExist: continue
            /\ req' = [req EXCEPT ![w] = NextLine(w, med_data)]
            /\ items' = items
            /\ resp' = NoResponse
       ELSE IF ~IsIntString(med_data.quantity)
       THEN \* int(med_data['quantity']): ValueError
            /\ req' = [req EXCEPT ![w] = Idle]
            /\ resp' = Raise(AtLine(w, med_data), "ValueError")
            /\ items' = items
       ELSE IF IntOf[med_data.quantity] < 0
       THEN \* PositiveIntegerField: the store refuses a negative quantity
            /\ req' = [req EXCEPT ![w] = Idle]
            /\ resp' = Raise(AtLine(w, med_data), "IntegrityError")
            /\ items' = items
       ELSE LET id == IntOf[med_data.medicine_id]
                quantity == IntOf[med_data.quantity]
                unit_price == selling_price(medicine[id])
                total_price == PyDecimal(unit_price.v * quantity)
            IN  /\ items' = [items EXCEPT ![req[w].order] =
                                Append(@, NewItem(id, quantity, unit_price, total_price))]
                /\ req' = [req EXCEPT ![w] =
                             [NextLine(w, med_data) EXCEPT
                                !.total_amount = PyAdd(req[w].total_amount, total_price),
                                !.prescription_required =
                                    req[w].prescription_required
                                        \/ is_prescription_required(medicine[id])]]
                /\ resp' = NoResponse
    /\ UNCHANGED <<medicine, customer, order>>
    /\ UNCHANGED others

\* mutant: "+" written for "*"
TaxAmountPlus(total_amount) == PyAdd(total_amount, PyFloat(TaxRateMicro))

\* order.tax_amount = total_amount * 0.05
TaxAmount(total_amount) == PyMulFloat(total_amount, TaxRateMicro)

\* "Update order totals", order.save() (every column is written from the
\* instance in memory) and the 201 response
QCTotals(w) ==
    /\ req[w].kind = "quick" /\ req[w].pc = "totals"
    /\ LET subtotal == req[w].total_amount
           tax_amount == TaxAmount(subtotal)
           total_amount == PyAdd(subtotal, tax_amount)
       IN  IF tax_amount.t = "TypeError" \/ total_amount.t = "TypeError"
           THEN /\ req' = [req EXCEPT ![w] = Idle]
                /\ resp' = Raise(req[w], "TypeError")
                /\ order' = order
           ELSE LET row == [req[w].row EXCEPT
                              !.subtotal = Quantize(subtotal.v),
                              !.tax_amount = Quantize(tax_amount.v),
                              !.total_amount = Quantize(total_amount.v),
                              !.prescription_required = req[w].prescription_required]
                IN  /\ order' = [order EXCEPT ![req[w].order] = row]
                    /\ req' = [req EXCEPT ![w] = Idle]
                    /\ resp' = Response(req[w], 201, "")
    /\ UNCHANGED <<medicine, customer, items>>
    /\ UNCHANGED others

\* ----------------------------------------------------- update_order_status
OrderPk(order_id) ==
    { k \in 1..Len(order) : order[k].order_id = order_id }

\* the order ids a PATCH may name: those issued, and one never issued
NilUuid == 0
OrderIdInputs == {NilUuid} \cup { order[k].order_id : k \in 1..Len(order) }

\* mutant: a choice is missing from the list
IsValidStatusShort(new_status) ==
    new_status.kind = "str" /\ new_status.val \in STATUS_CHOICES \ {"PENDING"}

\* new_status in dict(Order.STATUS_CHOICES), for a hashable new_status
IsValidStatus(new_status) ==
    new_status.kind = "str" /\ new_status.val \in STATUS_CHOICES

\* Order.objects.get(order_id=order_id), the check of request.data['status']
\* and order.status = new_status on the instance in memory
USRequest(w, order_id, new_status) ==
    /\ FirstIdle(w)
    /\ LET found == OrderPk(order_id)
           r0 == [Idle EXCEPT !.kind = "status", !.order_id = order_id]
           r == [r0 EXCEPT !.new_status = new_status]
       IN  IF found = {}
           THEN \* returned before request.data is read
                /\ resp' = Response(r0, 404, "Order not found")
                /\ req' = req
           ELSE IF new_status.kind = "list"
           THEN \* TypeError: unhashable type
                /\ resp' = Raise(r, "TypeError")
                /\ req' = req
           ELSE IF ~IsValidStatus(new_status)
           THEN /\ resp' = Response(r, 400, "Invalid status")
                /\ req' = req
           ELSE LET k == CHOOSE k \in found : TRUE
                IN  /\ req' = [req EXCEPT ![w] =
                                 [r EXCEPT !.pc = "save", !.order = k,
                                           !.row = [order[k] EXCEPT
                                                      !.status = new_status.val]]]
                    /\ resp' = NoResponse
    /\ UNCHANGED <<medicine, customer, order, items>>
    /\ UNCHANGED others

\* order.save(): every column is written from the instance USRequest loaded
\* and set the status of
USSave(w) ==
    /\ req[w].kind = "status" /\ req[w].pc = "save"
    /\ LET row == req[w].row
       IN  /\ order' = [order EXCEPT ![req[w].order] = row]
           /\ req' = [req EXCEPT ![w] = Idle]
           /\ resp' = [Response(req[w], 200, "") EXCEPT
                         !.old_status = order[req[w].order].status]
    /\ UNCHANGED <<medicine, customer, items>>
    /\ UNCHANGED others

\* ------------------------------------------------------------------- admin
\* mutant: the items of the medicine follow its price
AdminChangePriceRepricing(id, price) ==
    /\ [mrp |-> medicine[id].mrp,
        discount_percentage |-> medicine[id].discount_percentage] # price
    /\ medicine' = [medicine EXCEPT ![id].mrp = price.mrp,
                                    ![id].discount_percentage = price.discount_percentage]
    /\ items' = [k \in OrderPks |-> [i \in 1..Len(items[k]) |->
                    IF items[k][i].medicine = id
                    THEN [items[k][i] EXCEPT
                            !.unit_price = Quantize(selling_price(price).v)]
                    ELSE items[k][i]]]
    /\ resp' = NoResponse
    /\ UNCHANGED <<customer, order, req>>
    /\ UNCHANGED others

\* MedicineAdmin: mrp and discount_percentage are editable
AdminChangePrice(id, price) ==
    /\ [mrp |-> medicine[id].mrp,
        discount_percentage |-> medicine[id].discount_percentage] # price
    /\ medicine' = [medicine EXCEPT ![id].mrp = price.mrp,
                                    ![id].discount_percentage = price.discount_percentage]
    /\ resp' = NoResponse
    /\ UNCHANGED <<customer, order, items, req>>
    /\ UNCHANGED others

\* OrderAdmin: the change form of an order saves its editable fields, of
\* which prescription_required stands for all
AdminChangeOrder(k) ==
    /\ k \in OrderPks
    /\ order' = [order EXCEPT ![k].prescription_required = ~order[k].prescription_required]
    /\ resp' = NoResponse
    /\ UNCHANGED <<medicine, customer, items, req>>
    /\ UNCHANGED others

\* MedicineDetailView: the medicine with its selling_price, which the
\* serializer's DecimalField(decimal_places=2) rounds
MedicineDetail(id) ==
    /\ resp' = [kind |-> "medicine", status_code |-> 200, id |-> id,
                mrp |-> medicine[id].mrp,
                discount_percentage |-> medicine[id].discount_percentage,
                selling_price |-> selling_price(medicine[id]),
                data |-> Quantize(selling_price(medicine[id]).v)]
    /\ UNCHANGED <<medicine, customer, order, items, req>>
    /\ UNCHANGED others

\* -------------------------------------------------------- whatsapp_session
\* a JSON object: a function from its keys to their values
EmptyDict == [k \in {} |-> 0]

\* a value request.data may hold under a key, or not hold (kind "none")
NoValue == [kind |-> "none", val |-> ""]
Str(s) == [kind |-> "str", val |-> s]
Dict(d) == [kind |-> "dict", val |-> d]
List == [kind |-> "list", val |-> EmptyDict]

\* bodies of a POST: current_step and context_data, each supplied or not;
\* context_data may be any JSON value, a list of numbers among them
SessionBodies ==
    { [current_step |-> NoValue, context_data |-> NoValue],
      [current_step |-> Str("menu"), context_data |-> NoValue],
      [current_step |-> NoValue, context_data |-> Dict([k \in {"a"} |-> 1])],
      [current_step |-> NoValue, context_data |-> Dict([k \in {"b"} |-> 2])],
      [current_step |-> Str("menu"), context_data |-> Dict([k \in {"a"} |-> 2])],
      [current_step |-> NoValue, context_data |-> List] }

\* request.data.get('session_id', 'default')
SessionIdOf(v) == IF v.kind = "none" THEN "default" ELSE v.val

SessionIdInputs == {NoValue, Str("default")}

\* dict.update
DictUpdate(d, u) ==
    [k \in DOMAIN d \cup DOMAIN u |-> IF k \in DOMAIN u THEN u[k] ELSE d[k]]

SessionPk(phone, session_id) ==
    { k \in 1..Len(session) : session[k].phone_number = phone
                               /\ session[k].session_id = session_id }

\* WhatsAppSession.objects.get_or_create(...): the table afterwards; the pair
\* (phone_number, session_id) is unique, so the lookup and the insert come to
\* one step; auto_now stamps the row it inserts
GetOrCreateSession(phone, session_id) ==
    IF SessionPk(phone, session_id) # {} THEN session
    ELSE Append(session, [phone_number |-> phone, session_id |-> session_id,
                          current_step |-> "start", context_data |-> EmptyDict,
                          last_activity |-> now])

\* the clock advances
Tick ==
    /\ now < MaxClock
    /\ now' = now + 1
    /\ resp' = NoResponse
    /\ UNCHANGED <<medicine, customer, order, items, req, alias, inventory, session>>

\* GET: get_or_create and the response; the row is not saved
SessionGet(w, phone, sid) ==
    /\ FirstIdle(w)
    /\ session' = GetOrCreateSession(phone, SessionIdOf(sid))
    /\ LET pk == CHOOSE k \in 1..Len(session') :
                     /\ session'[k].phone_number = phone
                     /\ session'[k].session_id = SessionIdOf(sid)
       IN  resp' = [kind |-> "session", method |-> "GET", status_code |-> 200,
                    session |-> pk, data |-> session'[pk]]
    /\ UNCHANGED <<medicine, customer, order, items, req, alias, inventory, now>>

\* POST: get_or_create, then current_step and context_data of the instance in
\* memory are set from request.data
SessionPost(w, phone, sid, body) ==
    /\ FirstIdle(w)
    /\ session' = GetOrCreateSession(phone, SessionIdOf(sid))
    /\ LET pk == CHOOSE k \in 1..Len(session') :
                     /\ session'[k].phone_number = phone
                     /\ session'[k].session_id = SessionIdOf(sid)
           loaded == session'[pk]
           stepped == IF body.current_step.kind = "none" THEN loaded
                      ELSE [loaded EXCEPT !.current_step = body.current_step.val]
       IN  IF body.context_data.kind = "list"
           THEN \* dict.update of a list that holds no pairs: TypeError
                /\ resp' = [kind |-> "session", method |-> "POST",
                            status_code |-> 500, session |-> pk, data |-> loaded]
                /\ req' = req
           ELSE /\ req' = [req EXCEPT ![w] =
                    [kind |-> "session", pc |-> "save", session |-> pk,
                     body |-> body,
                     row |-> IF body.context_data.kind = "none" THEN stepped
                             ELSE [stepped EXCEPT !.context_data =
                                     DictUpdate(@, body.context_data.val)]]]
                /\ resp' = NoResponse
    /\ UNCHANGED <<medicine, customer, order, items, alias, inventory, now>>

\* session.save(): every column is written from the instance in memory,
\* last_activity from the clock (auto_now)
SessionSave(w) ==
    /\ req[w].kind = "session" /\ req[w].pc = "save"
    /\ LET pk == req[w].session
           row == [req[w].row EXCEPT !.last_activity = now]
       IN  /\ session' = [session EXCEPT ![pk] = row]
           /\ resp' = [kind |-> "session", method |-> "POST", status_code |-> 200,
                       session |-> pk, data |-> row]
    /\ req' = [req EXCEPT ![w] = Idle]
    /\ UNCHANGED <<medicine, customer, order, items, alias, inventory, now>>

\* -------------------------------------------------------- search_medicines
\* A text is a sequence of characters.  str.lower on a character
Lower(c) == IF c = "A" THEN "a" ELSE IF c = "B" THEN "b" ELSE c

\* field__icontains=query: query is a substring of the field, case aside
IContains(field, query) ==
    \E i \in 1..(Len(field) - Len(query) + 1) :
        \A j \in 1..Len(query) : Lower(field[i + j - 1]) = Lower(query[j])

\* str.strip: leading and trailing blanks removed
Strip(text) ==
    LET inked == { i \in 1..Len(text) : text[i] # " " }
    IN  IF inked = {} THEN <<>>
        ELSE SubSeq(text, CHOOSE i \in inked : \A j \in inked : i <= j,
                          CHOOSE i \in inked : \A j \in inked : i >= j)

\* request.GET: q, pharmacy_id and limit, each given or not
QueryInputs ==
    {NoValue} \cup { Str(q) : q \in { <<" ">>, <<"a">>, <<"A", "B">>, <<" ", "b">> } }

SearchPharmacyInputs == {NoValue, Str("1"), Str("9"), Str("x")}

LimitInputs == {NoValue, Str("0"), Str("1"), Str("2"), Str("-1"), Str("x")}

DefaultLimit == 10

\* the alias column of a medicine that has no alias, in the outer join
NoAlias == <<"NULL">>

\* Medicine LEFT OUTER JOIN MedicineAlias: one row per medicine and alias
JoinRows ==
    UNION { LET aliases == { al.alias : al \in { x \in alias : x.medicine = m } }
            IN  IF aliases = {} THEN { <<m, NoAlias>> }
                ELSE { <<m, al>> : al \in aliases }
            : m \in DOMAIN medicine }

\* the Q(...) | Q(...) filter with is_active=True, on a row of the join
RowMatches(row, query) ==
    LET m == medicine[row[1]]
    IN  /\ m.is_active
        /\ \/ IContains(m.name, query)
           \/ IContains(m.generic_name, query)
           \/ IContains(m.brand_name, query)
           \/ (row[2] # NoAlias /\ IContains(row[2], query))

\* mutant: the rows of the join are returned as they are
NotDistinct(rows) == rows

\* .distinct(): the Medicine columns are selected, equal rows are merged
Distinct(rows) == { <<row[1], NoAlias>> : row \in rows }

Min(a, b) == IF a <= b THEN a ELSE b

\* [:limit] of a query that states no order: any limit of its rows
Sliced(rows, limit) ==
    { S \in SUBSET rows : Cardinality(S) = Min(limit, Cardinality(rows)) }

RECURSIVE ListOf(_)
ListOf(rows) ==
    IF rows = {} THEN <<>>
    ELSE LET row == CHOOSE r \in rows : TRUE
         IN  <<row>> \o ListOf(rows \ {row})

\* the rows the inventory query returns for a medicine
InStock(pharmacy_id, m) ==
    { x \in inventory : x.pharmacy = pharmacy_id /\ x.medicine = m
                         /\ x.stock_quantity > 0 }

\* inventory_dict: one entry per medicine_id, of whichever row of that
\* medicine the query returned last
InventoryDicts(pharmacy_id, ids) ==
    { d \in [ids -> 0..9] :
        \A m \in ids : IF InStock(pharmacy_id, m) = {} THEN d[m] = 0
                       ELSE \E x \in InStock(pharmacy_id, m) : d[m] = x.stock_quantity }

SearchResponse(q, pharmacy_id, limit, status_code, data) ==
    [kind |-> "search", q |-> q, pharmacy_id |-> pharmacy_id, limit |-> limit,
     status_code |-> status_code, data |-> data]

\* search_medicines; nothing writes while it reads, so its queries come to
\* one step
Search(q, pharmacy_id, limit) ==
    /\ LET query == Strip(IF q.kind = "none" THEN <<>> ELSE q.val)
           answer(status_code, data) ==
               resp' = SearchResponse(q, pharmacy_id, limit, status_code, data)
       IN  IF limit.kind = "str" /\ ~IsIntString(limit.val)
           THEN answer(500, <<>>)        \* int('x'): ValueError
           ELSE IF query = <<>>
           THEN answer(400, <<>>)
           ELSE IF limit.kind = "str" /\ IntOf[limit.val] < 0
           THEN answer(500, <<>>)        \* negative indexing is not supported
           ELSE LET n == IF limit.kind = "none" THEN DefaultLimit ELSE IntOf[limit.val]
                    found == Distinct({ row \in JoinRows : RowMatches(row, query) })
                IN  \E medicines \in Sliced(found, n) :
                      LET rows == ListOf(medicines)
                          plain == [i \in 1..Len(rows) |->
                                      [id |-> rows[i][1], annotated |-> FALSE,
                                       stock_quantity |-> 0,
                                       available_at_pharmacy |-> FALSE]]
                      IN  IF pharmacy_id.kind = "none"
                          THEN answer(200, plain)
                          ELSE IF ~IsIntString(pharmacy_id.val)
                          THEN answer(500, <<>>)   \* Pharmacy.objects.get(id='x')
                          ELSE IF IntOf[pharmacy_id.val] \notin PharmacyIds
                          THEN answer(200, plain)  \* except Pharmacy.DoesNotExist: pass
                          ELSE \E inventory_dict \in
                                    InventoryDicts(IntOf[pharmacy_id.val],
                                                   { row[1] : row \in medicines }) :
                                 answer(200, [i \in 1..Len(rows) |->
                                     [id |-> rows[i][1], annotated |-> TRUE,
                                      stock_quantity |-> inventory_dict[rows[i][1]],
                                      available_at_pharmacy |->
                                          inventory_dict[rows[i][1]] > 0]])
    /\ UNCHANGED <<medicine, customer, order, items, req, alias, inventory, session, now>>

\* ------------------------------------------------------- customer_profile
\* bodies of a POST: the fields of CustomerSerializer (fields = '__all__'),
\* phone_number among them, each supplied or not
ProfileBodies ==
    [phone_number : {NoValue, Str("p1"), Str("p2")},
     whatsapp_number : {NoValue, Str("p9")}]

NoCustomer == [phone_number |-> "", whatsapp_number |-> ""]

ProfileResponse(method, phone_number, status_code, data) ==
    [kind |-> "profile", method |-> method, phone_number |-> phone_number,
     status_code |-> status_code, data |-> data]

\* Customer.objects.get(phone_number=phone_number) and what follows without
\* another statement: the GET's responses, the POST's serializer
ProfileRequest(w, method, phone_number, body) ==
    /\ FirstIdle(w)
    /\ LET found == CustomerPk(phone_number)
           r == [kind |-> "profile", pc |-> "create", phone_number |-> phone_number,
                 body |-> body, customer |-> 0, instance |-> NoCustomer]
       IN  IF found = {}
           THEN IF method = "GET"
                THEN /\ resp' = ProfileResponse(method, phone_number, 404, NoCustomer)
                     /\ req' = req
                ELSE \* data['phone_number'] = phone_number
                     /\ req' = [req EXCEPT ![w] =
                                  [r EXCEPT !.body.phone_number = Str(phone_number)]]
                     /\ resp' = NoResponse
           ELSE LET k == CHOOSE k \in found : TRUE
                IN  IF method = "GET"
                    THEN /\ resp' = ProfileResponse(method, phone_number, 200, customer[k])
                         /\ req' = req
                    ELSE /\ req' = [req EXCEPT ![w] =
                                      [r EXCEPT !.pc = "update", !.customer = k,
                                                !.instance = customer[k]]]
                         /\ resp' = NoResponse
    /\ UNCHANGED <<medicine, customer, order, items>>
    /\ UNCHANGED others

\* serializer.is_valid() and serializer.save() of a new customer; the
\* serializer's UniqueValidator refuses a phone_number that is stored
ProfileCreate(w) ==
    /\ req[w].kind = "profile" /\ req[w].pc = "create"
    /\ LET body == req[w].body
           row == [phone_number |-> body.phone_number.val,
                   whatsapp_number |-> IF body.whatsapp_number.kind = "none"
                                       THEN "" ELSE body.whatsapp_number.val]
       IN  IF CustomerPk(row.phone_number) # {}
           THEN /\ resp' = ProfileResponse("POST", req[w].phone_number, 400, NoCustomer)
                /\ customer' = customer
           ELSE /\ customer' = Append(customer, row)
                /\ resp' = ProfileResponse("POST", req[w].phone_number, 200, row)
    /\ req' = [req EXCEPT ![w] = Idle]
    /\ UNCHANGED <<medicine, order, items>>
    /\ UNCHANGED others

\* CustomerSerializer(customer, data=request.data, partial=True): is_valid()
\* and save(); the UniqueValidator leaves the instance itself aside; save()
\* writes every column from the instance
ProfileUpdate(w) ==
    /\ req[w].kind = "profile" /\ req[w].pc = "update"
    /\ LET body == req[w].body
           k == req[w].customer
           renamed == IF body.phone_number.kind = "none" THEN req[w].instance
                      ELSE [req[w].instance EXCEPT
                              !.phone_number = body.phone_number.val]
           row == IF body.whatsapp_number.kind = "none" THEN renamed
                  ELSE [renamed EXCEPT !.whatsapp_number = body.whatsapp_number.val]
       IN  IF CustomerPk(row.phone_number) \ {k} # {}
           THEN /\ resp' = ProfileResponse("POST", req[w].phone_number, 400, NoCustomer)
                /\ customer' = customer
           ELSE /\ customer' = [customer EXCEPT ![k] = row]
                /\ resp' = ProfileResponse("POST", req[w].phone_number, 200, row)
    /\ req' = [req EXCEPT ![w] = Idle]
    /\ UNCHANGED <<medicine, order, items>>
    /\ UNCHANGED others

\* ----------------------------------------------------------- specifications
\* Every specification runs the same handlers on the two workers; they differ
\* in the requests they draw.

\* Spec: quick-create requests with every kind of line
Next ==
    \/ \E w \in Workers, pharmacy_id \in PharmacyIdInputs, n \in 0..MaxLines :
            QCStart(w, "p1", pharmacy_id, n)
    \/ \E w \in Workers : QCGetCustomer(w)
    \/ \E w \in Workers : QCCreateCustomer(w)
    \/ \E w \in Workers : QCCreateOrder(w)
    \/ \E w \in Workers, med_data \in LineValues : QCLine(w, med_data)
    \/ \E w \in Workers : QCTotals(w)

Spec == Init /\ [][Next]_vars

\* SpecPrice: quick-create requests for medicine 1 while the admin reprices it
NextPrice ==
    \/ \E w \in Workers, n \in 0..MaxLines : QCStart(w, "p1", 1, n)
    \/ \E w \in Workers : QCGetCustomer(w)
    \/ \E w \in Workers : QCCreateCustomer(w)
    \/ \E w \in Workers : QCCreateOrder(w)
    \/ \E w \in Workers : QCLine(w, [medicine_id |-> "1", quantity |-> "2"])
    \/ \E w \in Workers : QCTotals(w)
    \/ \E price \in Prices : AdminChangePrice(1, price)

SpecPrice == Init /\ [][NextPrice]_vars

ValidStatusInputs == [kind : {"str"}, val : STATUS_CHOICES]

\* SpecStatus: PATCH requests with every valid status, against orders that
\* quick-create requests without lines are creating
NextStatus ==
    \/ \E w \in Workers : QCStart(w, "p1", 1, 0)
    \/ \E w \in Workers : QCGetCustomer(w)
    \/ \E w \in Workers : QCCreateCustomer(w)
    \/ \E w \in Workers : QCCreateOrder(w)
    \/ \E w \in Workers : QCTotals(w)
    \/ \E w \in Workers, order_id \in OrderIdInputs,
          new_status \in ValidStatusInputs :
            USRequest(w, order_id, new_status)
    \/ \E w \in Workers : USSave(w)

SpecStatus == Init /\ [][NextStatus]_vars

FrameStatusInputs ==
    { s \in StatusInputs : s.kind = "str" => s.val \in {"PENDING", "CONFIRMED", "SHIPPED"} }

\* SpecFrame: PATCH requests with a valid status, an unknown one, none and an
\* unhashable one, against orders that quick-create requests of at most one
\* line are creating and the admin is editing
NextFrame ==
    \/ \E w \in Workers, n \in {0, 1} : QCStart(w, "p1", 1, n)
    \/ \E w \in Workers : QCGetCustomer(w)
    \/ \E w \in Workers : QCCreateCustomer(w)
    \/ \E w \in Workers : QCCreateOrder(w)
    \/ \E w \in Workers : QCLine(w, [medicine_id |-> "2", quantity |-> "1"])
    \/ \E w \in Workers : QCTotals(w)
    \/ \E w \in Workers, order_id \in OrderIdInputs, new_status \in FrameStatusInputs :
            USRequest(w, order_id, new_status)
    \/ \E w \in Workers : USSave(w)
    \/ \E k \in OrderPks : AdminChangeOrder(k)

SpecFrame == Init /\ [][NextFrame]_vars

\* SpecCustomer: quick-create requests without lines, from two phone numbers
NextCustomer ==
    \/ \E w \in Workers, phone \in Phones : QCStart(w, phone, 1, 0)
    \/ \E w \in Workers : QCGetCustomer(w)
    \/ \E w \in Workers : QCCreateCustomer(w)
    \/ \E w \in Workers : QCCreateOrder(w)
    \/ \E w \in Workers : QCTotals(w)

SpecCustomer == Init /\ [][NextCustomer]_vars

\* SpecSession: GETs and POSTs on the session of one phone number, while the
\* clock advances
NextSession ==
    \/ Tick
    \/ \E w \in Workers, sid \in SessionIdInputs : SessionGet(w, "p1", sid)
    \/ \E w \in Workers, sid \in SessionIdInputs, body \in SessionBodies :
            SessionPost(w, "p1", sid, body)
    \/ \E w \in Workers : SessionSave(w)

SpecSession == Init /\ [][NextSession]_vars

\* SpecSearch: searches over every catalogue and inventory of InitSearch
SearchNames == { <<"A", "b">>, <<"b">> }

AliasInputs ==
    { {},
      { [medicine |-> 1, alias |-> <<"a">>] },
      { [medicine |-> 1, alias |-> <<"a">>], [medicine |-> 1, alias |-> <<"B", "a">>] } }

Batch(m, batch_number, stock_quantity) ==
    [pharmacy |-> 1, medicine |-> m, batch_number |-> batch_number,
     stock_quantity |-> stock_quantity, selling_price |-> 4000]

InventoryInputs ==
    { {},
      { Batch(1, "b1", 0) },
      { Batch(1, "b1", 5) },
      { Batch(1, "b1", 5), Batch(1, "b2", 3), Batch(2, "b1", 2) } }

InitSearch ==
    /\ medicine \in
         { [id \in MedIds |->
              IF id = 1
              THEN [name |-> name, generic_name |-> <<>>, brand_name |-> <<>>,
                    is_active |-> is_active,
                    mrp |-> 5000, discount_percentage |-> 0,
                    prescription_type |-> "OTC"]
              ELSE [name |-> <<"a">>, generic_name |-> generic_name,
                    brand_name |-> <<"c">>, is_active |-> TRUE,
                    mrp |-> 10000, discount_percentage |-> 0,
                    prescription_type |-> "RX"]]
           : name \in SearchNames, is_active \in BOOLEAN,
             generic_name \in { <<>>, <<"a", "b">> } }
    /\ alias \in AliasInputs
    /\ inventory \in InventoryInputs
    /\ customer = <<>> /\ order = <<>> /\ items = <<>> /\ session = <<>>
    /\ req = [w \in Workers |-> Idle]
    /\ resp = NoResponse
    /\ now = 0

NextSearch ==
    \E q \in QueryInputs, pharmacy_id \in SearchPharmacyInputs, limit \in LimitInputs :
        Search(q, pharmacy_id, limit)

SpecSearch == InitSearch /\ [][NextSearch]_vars

\* SpecSelling: the admin sets the prices its form accepts (mrp is any
\* decimal of two places, discount_percentage one between 0 and 100), and the
\* medicines are read
AdminPrices ==
    [mrp : {0 - 500, 0, 1, 5000}, discount_percentage : {0, 1, 3333, 10000}]

NextSelling ==
    \/ \E id \in MedIds, price \in AdminPrices : AdminChangePrice(id, price)
    \/ \E id \in MedIds : MedicineDetail(id)

SpecSelling == Init /\ [][NextSelling]_vars

\* SpecQuantity: quick-create requests for medicine 1 in every quantity
QuantityLines ==
    { [medicine_id |-> "1", quantity |-> quantity] : quantity \in {"-1", "0", "1", "2"} }

NextQuantity ==
    \/ \E w \in Workers, n \in 1..MaxLines : QCStart(w, "p1", 1, n)
    \/ \E w \in Workers : QCGetCustomer(w)
    \/ \E w \in Workers : QCCreateCustomer(w)
    \/ \E w \in Workers : QCCreateOrder(w)
    \/ \E w \in Workers, med_data \in QuantityLines : QCLine(w, med_data)
    \/ \E w \in Workers : QCTotals(w)

SpecQuantity == Init /\ [][NextQuantity]_vars

\* SpecProfile: GETs and POSTs on the profiles of two phone numbers
NextProfile ==
    \/ \E w \in Workers, method \in {"GET", "POST"}, phone_number \in Phones,
          body \in ProfileBodies :
            ProfileRequest(w, method, phone_number, body)
    \/ \E w \in Workers : ProfileCreate(w)
    \/ \E w \in Workers : ProfileUpdate(w)

SpecProfile == Init /\ [][NextProfile]_vars

\* ------------------------------------------------------------------ claims
RECURSIVE SumTotalPrice(_)
SumTotalPrice(rows) ==
    IF rows = <<>> THEN 0 ELSE Head(rows).total_price + SumTotalPrice(Tail(rows))

\* 5% of an amount of cents, to the cent
FivePercent(cents) == Quantize((cents * CentMicro * TaxRateMicro) \div Micro)

HasPrescriptionItem(k) ==
    \E i \in 1..Len(items[k]) : medicine[items[k][i].medicine].prescription_type # "OTC"

WellFormed(med_data) ==
    med_data = NoLine
        \/ (IsIntString(med_data.medicine_id) /\ IsIntString(med_data.quantity))

C2_SubtotalIsSumOfItems ==
    (resp.kind = "quick" /\ resp.order # 0 /\ resp.unread = 0 /\ WellFormed(resp.med_data))
        => LET k == resp.order
           IN  /\ order[k].subtotal = SumTotalPrice(items[k])
               /\ \A i \in 1..Len(items[k]) :
                    /\ items[k][i].unit_price * CentMicro
                           = selling_price(medicine[items[k][i].medicine]).v
                    /\ items[k][i].total_price
                           = items[k][i].unit_price * items[k][i].quantity

\* C3: every quick-create request that passed validation (here: one that
\* names an existing pharmacy and whose lines are numeric strings) is answered
\* 201 and has created one order, with status PENDING.
C3_AlwaysCreated ==
    (resp.kind = "quick" /\ resp.pharmacy_id \in PharmacyIds /\ WellFormed(resp.med_data))
        => /\ resp.status_code = 201
           /\ resp.order \in OrderPks
           /\ order[resp.order].status = "PENDING"

\* C4: a line whose medicine id matches no Medicine raises no error and adds
\* no item; a line whose medicine id resolves adds one item, after the
\* order's items so far, with the line's quantity.
C4_UnresolvedLineSkipped ==
    [][ \A w \in Workers, med_data \in LineValues :
          QCLine(w, med_data) =>
            IF Resolves(med_data)
            THEN IsIntString(med_data.quantity) =>
                   /\ Len(items'[req[w].order]) = Len(items[req[w].order]) + 1
                   /\ SubSeq(items'[req[w].order], 1, Len(items[req[w].order]))
                          = items[req[w].order]
                   /\ items'[req[w].order][Len(items'[req[w].order])].quantity
                          = IntOf[med_data.quantity]
            ELSE /\ resp'.status_code # 500
                 /\ items' = items ]_vars

\* C5: once a quick-create request has ended, its order's
\* prescription_required is true iff one of its items is for a medicine whose
\* prescription_type is not OTC.
C5_PrescriptionFlag ==
    (resp.kind = "quick" /\ resp.order # 0)
        => (order[resp.order].prescription_required <=> HasPrescriptionItem(resp.order))

\* C6: quick-create is all-or-nothing: a request that failed has left no
\* order, and every stored order, in every state, has the totals and the
\* flag of its items.
C6_AllOrNothing ==
    /\ (resp.kind = "quick" /\ resp.status_code = 500) => resp.order = 0
    /\ \A k \in OrderPks :
        /\ order[k].subtotal = SumTotalPrice(items[k])
        /\ order[k].tax_amount = FivePercent(order[k].subtotal)
        /\ order[k].total_amount = order[k].subtotal + order[k].tax_amount
        /\ order[k].prescription_required <=> HasPrescriptionItem(k)

\* the totals of a stored order
Totals(row) == <<row.subtotal, row.tax_amount, row.total_amount>>

\* C7: no step, a change of a medicine's mrp or discount_percentage
\* included, changes the unit_price or total_price of an existing OrderItem
\* or the subtotal, tax_amount or total_amount of an existing order.
C7_PricesAreSnapshots ==
    [][ /\ \A k \in OrderPks :
             /\ Totals(order'[k]) = Totals(order[k])
             /\ \A i \in 1..Len(items[k]) :
                  /\ items'[k][i].unit_price = items[k][i].unit_price
                  /\ items'[k][i].total_price = items[k][i].total_price ]_vars

\* an item keeps a price its medicine no longer has
C7_Witness ==
    \E k \in OrderPks : \E i \in 1..Len(items[k]) :
        /\ items[k][i].unit_price = 5000
        /\ Quantize(selling_price(medicine[items[k][i].medicine]).v) # 5000

\* C8: a PATCH whose order id matches no order is answered 404, one whose
\* status is not an enumerated value (or is missing) is answered 400, and
\* neither changes stored data.
C8_Rejects ==
    [][ \A w \in Workers, order_id \in OrderIdInputs, new_status \in StatusInputs :
          (USRequest(w, order_id, new_status)
             /\ (OrderPk(order_id) = {} \/ ~(new_status.kind = "str"
                                             /\ new_status.val \in STATUS_CHOICES)))
            => /\ resp'.status_code = IF OrderPk(order_id) = {} THEN 404 ELSE 400
               /\ <<medicine, customer, order, items>>'
                      = <<medicine, customer, order, items>> ]_vars

\* C9: a PATCH naming an existing order and an enumerated status is never
\* rejected, whatever the order's current status: the response it gets is
\* 200, sent by the save that set the order's status to the new one.
C9_AnyTransition ==
    (resp.kind = "status" /\ OrderPk(resp.order_id) # {}
                          /\ resp.new_status \in ValidStatusInputs)
        => /\ resp.status_code = 200
           /\ resp.order \in OrderPk(resp.order_id)
           /\ order[resp.order].status = resp.new_status.val

\* a DELIVERED order has been set back to PENDING
C9_Witness ==
    /\ resp.kind = "status" /\ resp.status_code = 200
    /\ resp.old_status = "DELIVERED"
    /\ resp.new_status.val = "PENDING"
    /\ order[resp.order].status = "PENDING"

\* C10: a step of update_order_status changes nothing but the status of the
\* order it names: that order's other columns, its items, every other order
\* and every other table stay as they are.
C10_OnlyStatusChanges ==
    [][ /\ \A w \in Workers, order_id \in OrderIdInputs, new_status \in StatusInputs :
             USRequest(w, order_id, new_status)
                => <<medicine, customer, order, items>>'
                       = <<medicine, customer, order, items>>
        /\ \A w \in Workers :
             USSave(w)
                => /\ \A k \in OrderPks :
                        IF k = req[w].order
                        THEN order'[k] = [order[k] EXCEPT !.status = order'[k].status]
                        ELSE order'[k] = order[k]
                   /\ Len(order') = Len(order)
                   /\ <<medicine, customer, items>>' = <<medicine, customer, items>> ]_vars

\* C11: there is at most one Customer row per phone number, the customer a
\* quick-create request holds is the one with the request's phone number, and
\* every order is attached to a stored customer.
C11_OneCustomerPerPhone ==
    /\ \A i, j \in 1..Len(customer) :
         customer[i].phone_number = customer[j].phone_number => i = j
    /\ \A w \in Workers :
         (req[w].kind = "quick" /\ req[w].customer # 0)
            => /\ req[w].customer \in CustomerPk(req[w].customer_phone)
               /\ req[w].order # 0 => order[req[w].order].customer = req[w].customer
    /\ \A k \in OrderPks : order[k].customer \in 1..Len(customer)

\* two requests race on a new phone number: one has looked up and missed, the
\* other has inserted the customer in between and holds it
C11_Witness ==
    \E w, u \in Workers :
        /\ w # u
        /\ req[w].kind = "quick" /\ req[w].pc = "customer_create"
        /\ req[u].kind = "quick" /\ req[u].customer # 0
        /\ req[u].customer \in CustomerPk(req[w].customer_phone)

\* C12: the save of a POST merges context_data key by key into the stored
\* context: every key of the update has the update's value, every other
\* stored key keeps its value and none is removed; current_step changes only
\* when the update supplies it.
C12_ContextIsMerged ==
    [][ \A w \in Workers :
          SessionSave(w) =>
            LET pk == req[w].session
                body == req[w].body
                update == IF body.context_data.kind = "dict"
                          THEN body.context_data.val ELSE EmptyDict
                before == session[pk].context_data
                after == session'[pk].context_data
            IN  /\ \A k \in DOMAIN update : k \in DOMAIN after /\ after[k] = update[k]
                /\ \A k \in DOMAIN before \ DOMAIN update :
                       k \in DOMAIN after /\ after[k] = before[k]
                /\ session'[pk].current_step
                       = IF body.current_step.kind = "none"
                         THEN session[pk].current_step
                         ELSE body.current_step.val ]_vars

\* C13: a GET or POST that was answered 200 has set the session's
\* last_activity to the time of the request.
C13_LastActivityOnEveryTouch ==
    (resp.kind = "session" /\ resp.status_code = 200)
        => session[resp.session].last_activity = now

\* what the search is to find: the active medicines of which the name, the
\* generic name, the brand name or an alias contains the text, case aside
MatchingIds(text) ==
    { m \in DOMAIN medicine :
        /\ medicine[m].is_active
        /\ \/ IContains(medicine[m].name, text)
           \/ IContains(medicine[m].generic_name, text)
           \/ IContains(medicine[m].brand_name, text)
           \/ \E x \in alias : x.medicine = m /\ IContains(x.alias, text) }

\* a search with a limit N >= 0 (10 when none is given) and a pharmacy id
\* that is absent or a number
WellFormedSearch ==
    /\ resp.kind = "search"
    /\ resp.q.kind = "str"
    /\ resp.limit.kind = "str" => (IsIntString(resp.limit.val) /\ IntOf[resp.limit.val] >= 0)
    /\ resp.pharmacy_id.kind = "str" => IsIntString(resp.pharmacy_id.val)

LimitOfSearch == IF resp.limit.kind = "none" THEN 10 ELSE IntOf[resp.limit.val]

\* the response lists medicines that match the text, each once, all of them
\* if they are fewer than the limit and as many as the limit otherwise
Finds(text) ==
    /\ resp.status_code = 200
    /\ \A i \in 1..Len(resp.data) : resp.data[i].id \in MatchingIds(text)
    /\ \A i, j \in 1..Len(resp.data) : resp.data[i].id = resp.data[j].id => i = j
    /\ Len(resp.data) = Min(LimitOfSearch, Cardinality(MatchingIds(text)))

RECURSIVE SumStock(_)
SumStock(rows) ==
    IF rows = {} THEN 0
    ELSE LET x == CHOOSE r \in rows : TRUE
         IN  x.stock_quantity + SumStock(rows \ {x})

CurrentStock(pharmacy_id, m) ==
    SumStock({ x \in inventory : x.pharmacy = pharmacy_id /\ x.medicine = m })

\* C15: when a pharmacy id is supplied, every returned medicine carries
\* stock_quantity, equal to the pharmacy's stock of it (0 without inventory
\* row or without such a pharmacy), and available_at_pharmacy, equal to
\* stock_quantity > 0.
C15_StockAnnotation ==
    (WellFormedSearch /\ resp.pharmacy_id.kind = "str" /\ resp.status_code = 200)
        => \A i \in 1..Len(resp.data) :
             /\ resp.data[i].annotated
             /\ resp.data[i].stock_quantity
                    = CurrentStock(IntOf[resp.pharmacy_id.val], resp.data[i].id)
             /\ resp.data[i].available_at_pharmacy = (resp.data[i].stock_quantity > 0)

\* C16: no step of quick-create changes a PharmacyInventory row or a
\* Medicine row, and the unit_price of every item a step stores is the
\* medicine's mrp less its discount, whatever the inventory says.
C16_InventoryUntouched ==
    [][ /\ inventory' = inventory
        /\ medicine' = medicine
        /\ \A k \in 1..Len(items) :
             \A i \in (Len(items[k]) + 1)..Len(items'[k]) :
                LET m == medicine[items'[k][i].medicine]
                IN  items'[k][i].unit_price
                       = Quantize(m.mrp * CentMicro - m.mrp * m.discount_percentage) ]_vars

\* an item of medicine 1 is stored at the medicine's price while the
\* pharmacy's inventory states another price and the stock it had
C16_Witness ==
    \E k \in OrderPks : \E i \in 1..Len(items[k]) :
        /\ items[k][i].medicine = 1 /\ items[k][i].unit_price = 5000
        /\ order[k].pharmacy = 1
        /\ \E x \in inventory : /\ x.pharmacy = 1 /\ x.medicine = 1
                                /\ x.selling_price = 4000 /\ x.stock_quantity = 5

\* C17: the selling_price of a medicine is mrp - mrp * discount_percentage /
\* 100 (here in millionths, of an mrp in cents and a discount in hundredths
\* of a percent), and for a discount between 0 and 100 it lies between 0 and
\* mrp.
C17_SellingPriceRange ==
    resp.kind = "medicine"
        => /\ resp.selling_price.t = "Decimal"
           /\ resp.selling_price.v
                  = resp.mrp * CentMicro - resp.mrp * resp.discount_percentage
           /\ (0 <= resp.discount_percentage /\ resp.discount_percentage <= 100 * 100)
                 => /\ 0 <= resp.selling_price.v
                    /\ resp.selling_price.v <= resp.mrp * CentMicro

\* C18: every stored OrderItem has a quantity of at least 1.
C18_QuantityPositive ==
    \A k \in OrderPks : \A i \in 1..Len(items[k]) : items[k][i].quantity >= 1

\* C19: a customer the profile endpoint creates under a phone number has
\* that phone_number, no step changes the phone_number of a stored customer,
\* and a GET on a phone number answers with the customer of that number.
C19_PhoneIsStable ==
    [][ /\ \A k \in 1..Len(customer) :
             customer'[k].phone_number = customer[k].phone_number
        /\ \A k \in (Len(customer) + 1)..Len(customer') :
             /\ resp'.kind = "profile"
             /\ customer'[k].phone_number = resp'.phone_number
        /\ (resp'.kind = "profile" /\ resp'.method = "GET" /\ resp'.status_code = 200)
              => resp'.data.phone_number = resp'.phone_number ]_vars

====
